---- MODULE Spec2Model ----
(***************************************************************************)
(* The five command-line scripts of the movie re-ranking repository        *)
(* (ingest_data, ingest_embeddings, generate_embedding,                    *)
(* generate_user_embeddings, search_cli) as one state machine: a run picks *)
(* a script and its inputs, and then follows that script's control flow    *)
(* statement by statement against one PostgreSQL connection (committed     *)
(* state db, in-transaction view tx) or the embeddings HTTP API.           *)
(* SpecTwice lets ingest_data run a second time on the same files;         *)
(* SpecLib drives the DatabaseConnection class and the db_transaction      *)
(* context manager of utils.py directly.                                   *)
(*                                                                         *)
(* Scalings: ratings are doubled (rating 4.0 is 8, and the weight          *)
(* rating - 3.5 is kept as 2*rating - 7); search weights are in            *)
(* hundredths; scores are in thousandths. A nullable value is a sequence:  *)
(* <<>> is NULL / None, <<v>> is the value v.                              *)
(***************************************************************************)
EXTENDS Integers, Sequences, FiniteSets, TLC

\* ------------------------------------------------------------------ bounds
MaxMovies == 3
MaxUsers == 2
MaxBatch == 2
MaxCands == 2
MaxScore == 2
MaxNegLimit == 1
MaxRatings == 3

\* ------------------------------------------------------ program constants
SearchLimit == 10
DisplayRows == 10
LikeThreshold == 8
DislikeThreshold == 6
WeightOffset == 7

TestUserIds == <<10001, 10002, 20001, 20002>>

Scripts ==
    {"ingest_data", "ingest_embeddings", "generate_embedding",
     "generate_user_embeddings", "search_cli"}

DbScripts == Scripts \ {"generate_embedding"}

NULL == <<>>

Min(a, b) == IF a < b THEN a ELSE b
Max(a, b) == IF a > b THEN a ELSE b

MovieIds == 1..MaxMovies
UserIds == 1..MaxUsers

\* ------------------------------------------------------------- input files
\* movies.csv: one row per movie id.
MoviesCsv == [k \in 1..MaxMovies |-> k]

\* ratings.csv rows (userId, movieId, rating).
RatingsCsv ==
    << [user_id |-> 1, movie_id |-> 1, rating |-> 10],
       [user_id |-> 1, movie_id |-> 2, rating |-> 2],
       [user_id |-> 2, movie_id |-> 1, rating |-> 6] >>

\* The rows a ratings.csv given to ingest_data is made of: two ratings of the
\* same movie by the same user, and one by another user.
RatingRows ==
    { [user_id |-> 1, movie_id |-> 1, rating |-> 10],
      [user_id |-> 1, movie_id |-> 1, rating |-> 2],
      [user_id |-> 2, movie_id |-> 1, rating |-> 6] }

\* The ratings.csv files ingest_data is run on.
RatingsFiles == UNION {[1..n -> RatingRows] : n \in 0..MaxRatings}

\* tags.csv rows (userId, movieId, tag).
TagsCsv ==
    << [user_id |-> 1, movie_id |-> 1, tag |-> "epic"],
       [user_id |-> 2, movie_id |-> 2, tag |-> "slow"] >>

\* embeddings.csv: one row per movie id (the vector is MovieVec of the id).
EmbeddingsCsv == [k \in 1..MaxMovies |-> k]

\* The content embedding of a movie, a vector of two integers.
MovieVec(m) ==
    IF m = 1 THEN <<1, 0>> ELSE IF m = 2 THEN <<0, 1>> ELSE <<1, 1>>

\* ------------------------------------------------------------- the database
\* created_at of the rows of each table, by the table's unique key.
NoStamps == [movies |-> {}, users |-> {}, ratings |-> {}, tags |-> {}]

\* The key of a ratings row and of a tags row.
RatingKey(r) == <<r.user_id, r.movie_id>>
TagKey(r) == <<r.user_id, r.movie_id, r.tag>>

\* Rows with the given keys, all created at the same time.
StampsAt(keys, at) == {[key |-> k, at |-> at] : k \in keys}

EmptyDb ==
    [movies |-> {}, users |-> {}, ratings |-> {}, tags |-> {},
     content_embedding |-> {}, embedding |-> {}, temp |-> NULL,
     created_at |-> NoStamps]

\* The database the embedding and search scripts start from: movies, users and
\* ratings are ingested; the last movie has no content_embedding. rin gives
\* the ratings of user 1 on the first movies; user 2 has one neutral rating.
SeedDb(rin) ==
    [movies |-> MovieIds, users |-> UserIds,
     ratings |-> {[user_id |-> 1, movie_id |-> k, rating |-> rin[k]] : k \in 1..Len(rin)}
                 \cup {[user_id |-> 1, movie_id |-> MaxMovies, rating |-> 10],
                       [user_id |-> 2, movie_id |-> 1, rating |-> 6]},
     tags |-> {},
     content_embedding |-> MovieIds \ {MaxMovies},
     embedding |-> {}, temp |-> NULL,
     created_at |->
        [movies |-> StampsAt(MovieIds, 0), users |-> StampsAt(UserIds, 0),
         ratings |-> StampsAt({<<1, k>> : k \in 1..Len(rin)}
                              \cup {<<1, MaxMovies>>, <<2, 1>>}, 0),
         tags |-> {}]]

SomeEmbedding == [num |-> <<1, 0>>, den |-> 1]

\* ------------------------------------------------------------------- state
VARIABLES
    script, pc, exitStatus,
    cfgOk, filesExist, tagsExist, batchSize, schemaCols,
    userState, cands, partialWeight, showScores, limit, ratingsIn,
    conn, txn, unrolled, dirtyStmt, db, tx,
    phase, units, i, stmt, wrote,
    log, written, anyFailure, expectedDb,
    validated, calls, results, outcome, display, tables,
    movies, sent, output,
    ratingsFile, invocation, firstDb, connects,
    lastCall, cm

ctl == <<script, pc, exitStatus>>
inputs ==
    <<cfgOk, filesExist, tagsExist, batchSize, schemaCols,
      userState, cands, partialWeight, showScores, limit, ratingsIn, ratingsFile>>
dbv == <<conn, txn, unrolled, dirtyStmt, db, tx>>
loopv == <<phase, units, i, stmt, wrote>>
hist == <<log, written, anyFailure, expectedDb>>
searchv == <<validated, calls, results, outcome, display, tables>>
genv == <<movies, sent, output>>
\* The invocation: which run of the script this is, the database the first run
\* left, and the calls of connect made so far.
procv == <<invocation, firstDb, connects>>
\* The last method call on a DatabaseConnection and the db_transaction block.
libv == <<lastCall, cm>>

vars == <<ctl, inputs, dbv, loopv, hist, searchv, genv, procv, libv>>

\* ---------------------------------------------------------------- helpers
RECURSIVE SetToSeq(_)
\* The elements of a finite set of integers in ascending order.
SetToSeq(S) ==
    IF S = {} THEN <<>>
    ELSE LET m == CHOOSE x \in S : \A y \in S : x <= y
         IN <<m>> \o SetToSeq(S \ {m})

Range(s) == {s[k] : k \in 1..Len(s)}

\* rows[i : i + n] of Python, with i a 1-based start.
Batch(rows, start, n) == SubSeq(rows, start, Min(start + n - 1, Len(rows)))

\* The statements one unit of work issues inside its try block, in order.
Stmts(ph) ==
    CASE ph = "movies" -> <<"create_temp", "insert_temp", "merge", "commit">>
      [] ph = "users" -> <<"insert", "commit">>
      [] ph = "ratings" -> <<"insert", "commit">>
      [] ph = "tags" -> <<"insert", "commit">>
      [] ph = "embeddings" -> <<"create_temp", "insert_temp", "update", "commit">>
      [] ph = "user_embedding" -> <<"update", "fetchall", "commit">>
      [] OTHER -> <<>>

\* batch_size rows per unit, except the per-user loop, which takes one user.
UnitSize(ph) == IF ph = "user_embedding" THEN 1 ELSE batchSize

\* The unique users of ratings.csv, as ingest_users collects them.
UniqueUsers == SetToSeq({ratingsFile[k].user_id : k \in 1..Len(ratingsFile)})

\* The rows a phase of ingest_data iterates over.
Rows(ph) ==
    CASE ph = "movies" -> MoviesCsv
      [] ph = "users" -> UniqueUsers
      [] ph = "ratings" -> ratingsFile
      [] ph = "tags" -> TagsCsv
      [] ph = "embeddings" -> EmbeddingsCsv
      [] OTHER -> <<>>

\* An ingest_all that ingests the ratings before the users.
NextPhaseRatingsFirst(ph) ==
    CASE ph = "movies" -> "ratings"
      [] ph = "ratings" -> "users"
      [] ph = "users" -> IF tagsExist THEN "tags" ELSE ""
      [] OTHER -> ""

\* The phase ingest_all runs after ph ("" when ph was the last one).
NextPhase(ph) ==
    CASE ph = "movies" -> "users"
      [] ph = "users" -> "ratings"
      [] ph = "ratings" -> IF tagsExist THEN "tags" ELSE ""
      [] OTHER -> ""

\* ------------------------------------------------ user embedding (the SQL)
\* Twice the weight the CASE expression gives a rating: rating - 3.5 for a
\* like, -(3.5 - rating) otherwise.
Weight(r) == IF r >= LikeThreshold THEN r - WeightOffset ELSE -(WeightOffset - r)

\* The rows of the user_weights CTE: a user's likes and dislikes on movies that
\* have a content embedding.
UserWeights(d, u) ==
    {r \in d.ratings :
        /\ r.user_id = u
        /\ r.movie_id \in d.movies
        /\ r.movie_id \in d.content_embedding
        /\ (r.rating >= LikeThreshold \/ r.rating < DislikeThreshold)}

RECURSIVE SumWeights(_)
SumWeights(R) ==
    IF R = {} THEN 0
    ELSE LET r == CHOOSE x \in R : TRUE
         IN Weight(r.rating) + SumWeights(R \ {r})

RECURSIVE SumWeighted(_, _)
\* Component c of SUM(weight * content_embedding).
SumWeighted(R, c) ==
    IF R = {} THEN 0
    ELSE LET r == CHOOSE x \in R : TRUE
         IN Weight(r.rating) * MovieVec(r.movie_id)[c] + SumWeighted(R \ {r}, c)

\* SUM(weight * content_embedding) / SUM(weight) over the rows R, as the
\* fraction num / den; NULL over no rows.
WeightedEmbedding(R) ==
    IF R = {} THEN NULL
    ELSE << [num |-> <<SumWeighted(R, 1), SumWeighted(R, 2)>>,
             den |-> SumWeights(R)] >>

\* The division by SUM(weight) fails when the weights cancel.
DivisionByZero(R) == R # {} /\ SumWeights(R) = 0

\* ------------------------------------------------------ statement effects
\* An upsert that stamps every row it touches with the time of the statement.
StampOverwrites(old, keys) ==
    {e \in old : e.key \notin keys} \cup StampsAt(keys, invocation)

\* created_at after an upsert of the rows with these keys: a new row gets the
\* time of the invocation (the column's default); a conflicting row keeps its own
\* (SET created_at = <table>.created_at, or DO NOTHING).
Stamp(old, keys) ==
    old \cup StampsAt({k \in keys : \A e \in old : e.key # k}, invocation)

\* The unique key of a row of the table a phase fills.
RowKey(ph, r) ==
    IF ph = "ratings" THEN RatingKey(r) ELSE IF ph = "tags" THEN TagKey(r) ELSE <<r>>

\* Two rows of one INSERT ... ON CONFLICT DO UPDATE carry the same key: the
\* server refuses to update a row twice in one statement.
HasDuplicateKey(ph, batch) ==
    \E a, b \in 1..Len(batch) : a # b /\ RowKey(ph, batch[a]) = RowKey(ph, batch[b])

\* A ratings row whose user or movie is not in the parent table.
BreaksForeignKey(batch, t) ==
    \E b \in Range(batch) : b.user_id \notin t.users \/ b.movie_id \notin t.movies

\* The in-transaction view after one statement of a unit succeeded.
Effect(name, ph, batch, t) ==
    CASE name = "create_temp" -> [t EXCEPT !.temp = <<{}>>]
      [] name = "insert_temp" -> [t EXCEPT !.temp = <<Range(batch)>>]
      [] name = "merge" ->
            [t EXCEPT !.movies = @ \cup t.temp[1],
                      !.created_at.movies = Stamp(@, t.temp[1])]
      [] name = "update" /\ ph = "embeddings" ->
            [t EXCEPT !.content_embedding = @ \cup (t.temp[1] \cap t.movies)]
      [] name = "update" /\ ph = "user_embedding" ->
            LET u == batch[1]
                v == WeightedEmbedding(UserWeights(t, u))
            IN IF u \notin t.users THEN t
               ELSE [t EXCEPT !.embedding =
                        {e \in @ : e.user_id # u}
                        \cup {[user_id |-> u, value |-> v[1]] : k \in 1..Len(v)}]
      [] name = "insert" /\ ph = "users" ->
            [t EXCEPT !.users = @ \cup Range(batch),
                      !.created_at.users = Stamp(@, Range(batch))]
      [] name = "insert" /\ ph = "ratings" ->
            [t EXCEPT !.ratings =
                {r \in @ : \A b \in Range(batch) :
                    ~(b.user_id = r.user_id /\ b.movie_id = r.movie_id)}
                \cup Range(batch),
               !.created_at.ratings =
                    Stamp(@, {RatingKey(b) : b \in Range(batch)})]
      [] name = "insert" /\ ph = "tags" ->
            [t EXCEPT !.tags = @ \cup Range(batch),
                      !.created_at.tags = Stamp(@, {TagKey(b) : b \in Range(batch)})]
      [] OTHER -> t

\* A statement that cannot succeed whatever the server's health.
MustFail(name, ph, batch, t) ==
    \/ txn = "aborted"
    \/ name = "create_temp" /\ t.temp # NULL
    \/ name \in {"insert_temp", "merge"} /\ t.temp = NULL
    \/ name = "update" /\ ph = "embeddings" /\ t.temp = NULL
    \/ name = "insert" /\ ph \in {"ratings", "tags"} /\ HasDuplicateKey(ph, batch)
    \/ name = "insert" /\ ph = "ratings" /\ BreaksForeignKey(batch, t)
    \/ name = "update" /\ ph = "user_embedding"
        /\ DivisionByZero(UserWeights(t, batch[1]))

\* cursor.fetchall() raises ProgrammingError after a statement that returns no
\* rows (an UPDATE or ALTER TABLE without RETURNING).
FetchallRaises(kind) == kind # "select"

\* COMMIT: the view becomes the committed state; ON COMMIT DROP temp tables go.
Committed(t) == [t EXCEPT !.temp = NULL]

\* A handler that forgets conn.rollback(): everything stays as the failure left it.
NoRollback(d, t) == [tx |-> t, txn |-> txn, unrolled |-> unrolled]

\* conn.rollback(): the view falls back to the committed state and the
\* transaction is over.
Rollback(d, t) == [tx |-> d, txn |-> "idle", unrolled |-> FALSE]

RECURSIVE ApplyStmts(_, _, _, _)
\* The view after statements k.. of a unit all succeeded.
ApplyStmts(ph, batch, t, k) ==
    IF k > Len(Stmts(ph)) THEN t
    ELSE ApplyStmts(ph, batch, Effect(Stmts(ph)[k], ph, batch, t), k + 1)

\* What one committed unit contributes to the database.
UnitEffect(ph, batch, d) == Committed(ApplyStmts(ph, batch, d, 1))

\* --------------------------------------------------- search (the SQL part)
\* The user the search is run for.
SearchUser == 1

\* first_pass_retrieval: the best `limit` matches.
FirstPass(c) == SubSeq(c, 1, Min(Len(c), SearchLimit))

MinBm25(c) == CHOOSE x \in {c[k].bm25 : k \in 1..Len(c)} :
                \A y \in {c[k].bm25 : k \in 1..Len(c)} : x <= y
MaxBm25(c) == CHOOSE x \in {c[k].bm25 : k \in 1..Len(c)} :
                \A y \in {c[k].bm25 : k \in 1..Len(c)} : x >= y

\* normalization: (score - min) / NULLIF(max - min, 0), in thousandths.
NormalizedBm25(c, k) ==
    IF MaxBm25(c) - MinBm25(c) = 0 THEN NULL
    ELSE << ((c[k].bm25 - MinBm25(c)) * 1000) \div (MaxBm25(c) - MinBm25(c)) >>

\* joint_ranker: w1 * normalized_bm25 + w2 * normalized_similarity, NULL as
\* soon as one operand is NULL; the weights w are in hundredths.
CombinedScore(nb, sim, w) ==
    IF nb = NULL \/ sim = NULL THEN NULL
    ELSE << (w[1] * nb[1] + w[2] * sim[1]) \div 100 >>

\* The row the query returns for candidate k.
SearchRow(c, k, w) ==
    [movie_id |-> k,
     normalized_bm25 |-> NormalizedBm25(c, k),
     normalized_similarity |-> c[k].sim,
     combined_score |-> CombinedScore(NormalizedBm25(c, k), c[k].sim, w)]

\* ORDER BY combined_score DESC: NULLs sort first, ties in any order.
DescOrdered(a, b) == a = NULL \/ (b # NULL /\ a[1] >= b[1])

\* The row sequences the query may return for the candidates c.
SearchRows(c, w) ==
    {[k \in 1..Len(c) |-> SearchRow(c, p[k], w)] :
        p \in {q \in [1..Len(c) -> 1..Len(c)] :
                /\ \A a, b \in 1..Len(c) : a # b => q[a] # q[b]
                /\ \A a \in 1..(Len(c) - 1) :
                    DescOrdered(CombinedScore(NormalizedBm25(c, q[a]), c[q[a]].sim, w),
                                CombinedScore(NormalizedBm25(c, q[a + 1]), c[q[a + 1]].sim, w))}}

\* float(x) raises TypeError on None.
FloatRaises(x) == x = NULL

\* The list comprehension of unified_search raises as soon as one score is NULL.
ConversionRaises(rows) ==
    \E k \in 1..Len(rows) :
        \/ FloatRaises(rows[k].normalized_bm25)
        \/ FloatRaises(rows[k].normalized_similarity)
        \/ FloatRaises(rows[k].combined_score)

\* The result dictionaries of unified_search.
ToResults(rows) ==
    [k \in 1..Len(rows) |->
        [movie_id |-> rows[k].movie_id,
         normalized_bm25_score |-> rows[k].normalized_bm25[1],
         similarity_score |-> rows[k].normalized_similarity[1],
         combined_score |-> rows[k].combined_score[1]]]

\* The three calls with the last two exchanged.
SearchWeightsSwapped(p) == << <<100, 0>>, <<0, 100>>, <<100 - p, p>> >>

\* The weights of the three unified_search calls of search, in hundredths:
\* (1.0, 0.0), (1.0 - p/100, p/100), (0.0, 1.0).
SearchWeights(p) == << <<100, 0>>, <<100 - p, p>>, <<0, 100>> >>

\* ------------------------------------------------- search (display_results)
\* The number of field names of each table.
FieldCount(show) == IF show THEN 4 ELSE 3

\* The blank header row holds three cells in both modes.
HeaderCells(show) == 3

\* A data row or a padding row: a Score cell is added with show_scores.
RowCells(show) == IF show THEN 4 ELSE 3

\* The add_row calls of display_results in program order: the three header
\* rows, then one row per table for each of the ten ranks.
AddRowCalls(show) ==
    [k \in 1..3 |-> [table |-> k, cells |-> HeaderCells(show)]]
    \o [k \in 1..(3 * DisplayRows) |->
            [table |-> ((k - 1) % 3) + 1, cells |-> RowCells(show)]]

\* PrettyTable.add_row raises ValueError when the row has not as many cells
\* as the table has field names.
AddRowRaises(fields, cells) == cells # fields

RECURSIVE RunAddRows(_, _, _, _)
\* The three tables after the add_row calls k.., stopping at one that raises.
RunAddRows(show, tabs, callsSeq, k) ==
    IF k > Len(callsSeq) THEN [tabs |-> tabs, raised |-> FALSE]
    ELSE LET c == callsSeq[k]
         IN IF AddRowRaises(FieldCount(show), c.cells)
            THEN [tabs |-> tabs, raised |-> TRUE]
            ELSE RunAddRows(show,
                            [tabs EXCEPT ![c.table] = Append(@, c.cells)],
                            callsSeq, k + 1)

\* ---------------------------------------------------- generate_embedding
\* movies[:limit] when `if args.limit:` holds, all movies otherwise.
ApplyLimit(ms, lim) ==
    IF lim = NULL \/ lim = <<0>> THEN ms
    ELSE IF lim[1] > 0 THEN SubSeq(ms, 1, Min(lim[1], Len(ms)))
    ELSE SubSeq(ms, 1, Max(Len(ms) + lim[1], 0))

\* What one POST to the embeddings API can end in.
ApiOutcomes == {"ok", "http_error", "request_exception", "bad_response"}

\* ------------------------------------------------------------------ inputs
\* The first-pass candidates of a query: BM25 score and normalized similarity
\* (NULL when the movie has no content_embedding), best BM25 first.
Cand == [bm25 : 1..MaxScore, sim : {NULL, <<400>>, <<900>>}]

CandLists ==
    {c \in UNION {[1..n -> Cand] : n \in 0..MaxCands} :
        \A k \in 1..(Len(c) - 1) : c[k].bm25 >= c[k + 1].bm25}

\* Values of --partial-weight (argparse type=float accepts any of them).
PartialWeights == {-50, 0, 25, 50, 100, 150}

\* Values of --limit: absent, or an integer.
LimitValues == {NULL} \cup {<<n>> : n \in (0 - MaxNegLimit)..MaxMovies}

\* Ratings a user can give: 1.0, 2.0, 3.0, 4.0 and 5.0 stars (times two).
RatingValues == {2, 4, 6, 8, 10}

DefaultRatings == <<10, 2>>

\* No method of a DatabaseConnection has been called.
NoCall == [method |-> "none", before |-> "none", result |-> "none", touched |-> FALSE]

\* No db_transaction block has been entered.
NoBlock ==
    [at |-> "out", body |-> "not_run", commits |-> 0, rollbacks |-> 0,
     original |-> NULL, propagated |-> NULL]

InitialDb(s, us, rin) ==
    CASE s = "ingest_data" -> EmptyDb
      [] s = "ingest_embeddings" ->
            [EmptyDb EXCEPT !.movies = MovieIds,
                            !.created_at.movies = StampsAt(MovieIds, 0)]
      [] s = "search_cli" ->
            [SeedDb(rin) EXCEPT
                !.users = IF us = "missing" THEN UserIds \ {1} ELSE UserIds,
                !.embedding = IF us = "ready"
                              THEN {[user_id |-> 1, value |-> SomeEmbedding]}
                              ELSE {}]
      [] OTHER -> SeedDb(rin)

Init ==
    /\ script \in Scripts
    /\ pc = "start"
    /\ exitStatus = NULL
    /\ cfgOk \in BOOLEAN
    /\ filesExist \in
        IF script \in {"ingest_data", "ingest_embeddings", "generate_embedding"}
        THEN BOOLEAN ELSE {TRUE}
    /\ tagsExist \in IF script = "ingest_data" THEN BOOLEAN ELSE {FALSE}
    /\ batchSize \in
        IF script \in {"ingest_data", "ingest_embeddings", "generate_embedding"}
        THEN 1..MaxBatch ELSE {1}
    /\ schemaCols \in
        IF script = "generate_user_embeddings"
        THEN SUBSET {"embedding", "updated_at"}
        ELSE {{"embedding", "updated_at"}}
    /\ userState \in
        IF script = "search_cli" THEN {"missing", "no_embedding", "ready"}
        ELSE {"ready"}
    /\ cands \in IF script = "search_cli" THEN CandLists ELSE {<<>>}
    /\ partialWeight \in IF script = "search_cli" THEN PartialWeights ELSE {50}
    /\ showScores \in IF script = "search_cli" THEN BOOLEAN ELSE {FALSE}
    /\ limit \in IF script = "generate_embedding" THEN LimitValues ELSE {NULL}
    /\ ratingsIn \in
        IF script = "generate_user_embeddings" THEN [1..2 -> RatingValues]
        ELSE {DefaultRatings}
    /\ ratingsFile \in IF script = "ingest_data" THEN RatingsFiles ELSE {RatingsCsv}
    /\ conn = "none"
    /\ txn = "idle"
    /\ unrolled = FALSE
    /\ dirtyStmt = FALSE
    /\ db = InitialDb(script, userState, ratingsIn)
    /\ tx = db
    /\ phase = ""
    /\ units = <<>>
    /\ i = 1
    /\ stmt = 1
    /\ wrote = FALSE
    /\ log = <<>>
    /\ written = <<>>
    /\ anyFailure = FALSE
    /\ expectedDb = db
    /\ validated = "unknown"
    /\ calls = <<>>
    /\ results = <<>>
    /\ outcome = "none"
    /\ display = "none"
    /\ tables = <<>>
    /\ movies = <<>>
    /\ sent = 0
    /\ output = <<>>
    /\ invocation = 1
    /\ firstDb = EmptyDb
    /\ connects = 0
    /\ lastCall = NoCall
    /\ cm = NoBlock

\* ----------------------------------------------------- entry points (main)
\* A main that builds the ingester without looking at the password.
IngestDataMainUnchecked ==
    /\ pc = "start" /\ script = "ingest_data"
    /\ pc' = "connect"
    /\ UNCHANGED <<script, procv, libv, exitStatus, inputs, dbv, loopv, hist, searchv, genv>>

\* ingest_data.main: the password is required before the ingester is built.
IngestDataMain ==
    /\ pc = "start" /\ script = "ingest_data"
    /\ IF cfgOk
       THEN pc' = "connect" /\ UNCHANGED exitStatus
       ELSE pc' = "done" /\ exitStatus' = <<1>>
    /\ UNCHANGED <<script, procv, libv, inputs, dbv, loopv, hist, searchv, genv>>

\* ingest_embeddings.main: embeddings.csv must exist, then the password.
IngestEmbeddingsMain ==
    /\ pc = "start" /\ script = "ingest_embeddings"
    /\ IF filesExist /\ cfgOk
       THEN pc' = "connect" /\ UNCHANGED exitStatus
       ELSE pc' = "done" /\ exitStatus' = <<1>>
    /\ UNCHANGED <<script, procv, libv, inputs, dbv, loopv, hist, searchv, genv>>

\* generate_user_embeddings.main -> setup_database: DatabaseConnection()
\* raises ValueError on an invalid configuration.
GenerateUserMain ==
    /\ pc = "start" /\ script = "generate_user_embeddings"
    /\ pc' = IF cfgOk THEN "connect" ELSE "raise"
    /\ UNCHANGED <<script, procv, libv, exitStatus, inputs, dbv, loopv, hist, searchv, genv>>

\* search_cli.main: validate_config, else exit 1.
SearchMain ==
    /\ pc = "start" /\ script = "search_cli"
    /\ IF cfgOk
       THEN pc' = "connect" /\ UNCHANGED exitStatus
       ELSE pc' = "done" /\ exitStatus' = <<1>>
    /\ UNCHANGED <<script, procv, libv, inputs, dbv, loopv, hist, searchv, genv>>

\* A script that calls connect again once its connection is open.
AfterConnectReconnects(s) == "connect"

\* Where a script goes once its connection is open.
AfterConnect(s) ==
    CASE s = "ingest_data" -> "check_files"
      [] s = "ingest_embeddings" -> "load_csv"
      [] s = "generate_user_embeddings" -> "verify_schema"
      [] OTHER -> "validate_user"

\* connect(): psycopg2.connect succeeds, or raises and the exception goes up.
Connect ==
    /\ pc = "connect" /\ script \in DbScripts
    /\ connects' = connects + 1
    /\ \E ok \in BOOLEAN :
        IF ok
        THEN /\ conn' = "open"
             /\ pc' = AfterConnect(script)
             /\ UNCHANGED anyFailure
        ELSE /\ pc' = "raise"
             /\ anyFailure' = TRUE
             /\ UNCHANGED conn
    /\ UNCHANGED <<script, invocation, firstDb, libv, exitStatus, inputs, txn, unrolled,
                   dirtyStmt, db, tx, loopv, log, written, expectedDb, searchv, genv>>

\* ------------------------------------------------------- the batch loops
\* ingest_all: the required files must exist; then movies are ingested first.
IngestAllCheckFiles ==
    /\ pc = "check_files"
    /\ IF filesExist
       THEN /\ pc' = "batch"
            /\ phase' = "movies"
            /\ units' = Rows("movies")
       ELSE /\ pc' = "raise"
            /\ UNCHANGED <<phase, units>>
    /\ i' = 1 /\ stmt' = 1 /\ wrote' = FALSE
    /\ UNCHANGED <<script, procv, libv, exitStatus, inputs, dbv, hist, searchv, genv>>

\* ingest_embeddings.main: load_embeddings_csv, then ingest_embeddings.
LoadEmbeddingsCsv ==
    /\ pc = "load_csv"
    /\ pc' = "batch"
    /\ phase' = "embeddings"
    /\ units' = Rows("embeddings")
    /\ i' = 1 /\ stmt' = 1 /\ wrote' = FALSE
    /\ UNCHANGED <<script, procv, libv, exitStatus, inputs, dbv, hist, searchv, genv>>

\* An except block that never re-raises.
ReraisesNever(s) == FALSE

\* Whether the except block of a unit re-raises (ingest_data) or counts the
\* failure and lets the loop go on.
Reraises(s) == s = "ingest_data"

\* One statement of the current unit's try block. A statement that fails
\* leaves the transaction aborted and control in the except block; the commit
\* that ends the unit publishes the view and moves the loop on.
BatchStatement ==
    /\ pc = "batch" /\ i <= Len(units) /\ stmt <= Len(Stmts(phase))
    /\ LET name == Stmts(phase)[stmt]
           batch == Batch(units, i, UnitSize(phase))
           server == name # "fetchall"
       IN \E healthy \in BOOLEAN :
            LET ok == IF server
                      THEN healthy /\ ~MustFail(name, phase, batch, tx)
                      ELSE ~FetchallRaises("update")
            IN
            /\ dirtyStmt' = (dirtyStmt \/ (server /\ unrolled))
            /\ IF ok /\ name = "commit"
               THEN /\ db' = Committed(tx)
                    /\ tx' = Committed(tx)
                    /\ txn' = "idle"
                    /\ log' = Append(log, "ok")
                    /\ written' = Append(written, wrote)
                    /\ expectedDb' = UnitEffect(phase, batch, expectedDb)
                    /\ i' = i + UnitSize(phase)
                    /\ stmt' = 1
                    /\ wrote' = FALSE
                    /\ UNCHANGED <<pc, unrolled, anyFailure>>
               ELSE IF ok
               THEN /\ tx' = Effect(name, phase, batch, tx)
                    /\ txn' = "active"
                    /\ stmt' = stmt + 1
                    /\ wrote' = (wrote \/ name \in {"merge", "insert", "update"})
                    /\ UNCHANGED <<pc, db, unrolled, i, log, written, anyFailure,
                                   expectedDb>>
               ELSE /\ txn' = IF server THEN "aborted" ELSE txn
                    /\ unrolled' = TRUE
                    /\ anyFailure' = TRUE
                    /\ pc' = "except"
                    /\ UNCHANGED <<db, tx, i, stmt, wrote, log, written, expectedDb>>
    /\ UNCHANGED <<script, procv, libv, exitStatus, inputs, conn, phase, units, searchv, genv>>

\* The except block of a unit: roll back, record the failure, then re-raise
\* or go on with the next unit.
BatchExcept ==
    /\ pc = "except"
    /\ LET rb == Rollback(db, tx)
       IN tx' = rb.tx /\ txn' = rb.txn /\ unrolled' = rb.unrolled
    /\ log' = Append(log, "fail")
    /\ written' = Append(written, wrote)
    /\ IF Reraises(script)
       THEN pc' = "raise" /\ UNCHANGED <<i, stmt, wrote>>
       ELSE pc' = "batch" /\ i' = i + UnitSize(phase) /\ stmt' = 1 /\ wrote' = FALSE
    /\ UNCHANGED <<script, procv, libv, exitStatus, inputs, conn, dirtyStmt, db, phase, units,
                   anyFailure, expectedDb, searchv, genv>>

\* The verifications a script runs after its loop, each a query in its own try block
\* whose failure is printed and swallowed.
VerifySteps(s) ==
    CASE s = "ingest_embeddings" -> <<"verify_ingestion", "get_sample_embeddings">>
      [] s = "generate_user_embeddings" ->
            <<"verify_statistics">> \o [k \in 1..Len(TestUserIds) |-> "verify_test_user"]
      [] OTHER -> <<>>

\* The for loop is exhausted: the next phase of ingest_all, or the script's
\* summary and verification.
LoopDone ==
    /\ pc = "batch" /\ i > Len(units)
    /\ IF script = "ingest_data" /\ NextPhase(phase) # ""
       THEN /\ phase' = NextPhase(phase)
            /\ units' = Rows(NextPhase(phase))
            /\ UNCHANGED pc
       ELSE /\ pc' = IF VerifySteps(script) = <<>> THEN "finish" ELSE "verify"
            /\ UNCHANGED <<phase, units>>
    /\ i' = 1 /\ stmt' = 1 /\ wrote' = FALSE
    /\ UNCHANGED <<script, procv, libv, exitStatus, inputs, dbv, hist, searchv, genv>>

\* One verification query; a failure aborts the transaction and is swallowed
\* without a rollback.
VerifyStep ==
    /\ pc = "verify" /\ i <= Len(VerifySteps(script))
    /\ \E healthy \in BOOLEAN :
        LET ok == healthy /\ txn # "aborted"
        IN /\ txn' = IF ok THEN "active" ELSE "aborted"
           /\ anyFailure' = (anyFailure \/ ~ok)
    /\ dirtyStmt' = (dirtyStmt \/ unrolled)
    /\ i' = i + 1
    /\ pc' = IF i = Len(VerifySteps(script)) THEN "finish" ELSE "verify"
    /\ UNCHANGED <<script, procv, libv, exitStatus, inputs, conn, unrolled, db, tx, phase, units,
                   stmt, wrote, log, written, expectedDb, searchv, genv>>

\* ---------------------------------------------- generate_user_embeddings
\* _verify_schema: a SELECT on information_schema; a missing column is added
\* with ALTER TABLE through execute_query, whose fetchall raises.
VerifySchema ==
    /\ pc = "verify_schema"
    /\ \E healthy \in BOOLEAN, altered \in BOOLEAN :
        IF ~healthy
        THEN /\ pc' = "raise" /\ txn' = "aborted" /\ anyFailure' = TRUE
        ELSE IF schemaCols # {"embedding", "updated_at"}
        THEN /\ pc' = IF altered /\ ~FetchallRaises("alter")
                     THEN "select_users" ELSE "raise"
             /\ txn' = IF altered THEN "active" ELSE "aborted"
             /\ anyFailure' = (anyFailure \/ ~altered \/ FetchallRaises("alter"))
        ELSE /\ pc' = "select_users" /\ txn' = "active" /\ UNCHANGED anyFailure
    /\ dirtyStmt' = (dirtyStmt \/ unrolled)
    /\ UNCHANGED <<script, procv, libv, exitStatus, inputs, conn, unrolled, db, tx, loopv,
                   log, written, expectedDb, searchv, genv>>

\* generate_all_user_embeddings: SELECT user_id FROM users ORDER BY user_id.
SelectUsers ==
    /\ pc = "select_users"
    /\ \E healthy \in BOOLEAN :
        IF healthy /\ txn # "aborted"
        THEN /\ pc' = "batch"
             /\ phase' = "user_embedding"
             /\ units' = SetToSeq(tx.users)
             /\ txn' = "active"
             /\ UNCHANGED anyFailure
        ELSE /\ pc' = "raise"
             /\ txn' = "aborted"
             /\ anyFailure' = TRUE
             /\ UNCHANGED <<phase, units>>
    /\ i' = 1 /\ stmt' = 1 /\ wrote' = FALSE
    /\ dirtyStmt' = (dirtyStmt \/ unrolled)
    /\ UNCHANGED <<script, procv, libv, exitStatus, inputs, conn, unrolled, db, tx,
                   log, written, expectedDb, searchv, genv>>

\* ------------------------------------------------------------ search_cli
\* validate_user: the user must exist and have an embedding; a failed query
\* is printed and answered False. On False search returns at once.
ValidateUser ==
    /\ pc = "validate_user"
    /\ \E healthy \in BOOLEAN :
        IF ~healthy
        THEN /\ validated' = "invalid" /\ txn' = "aborted" /\ anyFailure' = TRUE
             /\ pc' = "finish"
        ELSE /\ txn' = "active" /\ UNCHANGED anyFailure
             /\ IF /\ SearchUser \in tx.users
                   /\ \E e \in tx.embedding : e.user_id = SearchUser
                THEN validated' = "valid" /\ pc' = "search"
                ELSE validated' = "invalid" /\ pc' = "finish"
    /\ dirtyStmt' = (dirtyStmt \/ unrolled)
    /\ UNCHANGED <<script, procv, libv, exitStatus, inputs, conn, unrolled, db, tx, loopv,
                   log, written, expectedDb, calls, results, outcome, display,
                   tables, genv>>

\* One unified_search call of search: the query, then the conversion of its
\* rows; an exception of either goes up to main.
UnifiedSearch ==
    /\ pc = "search" /\ Len(calls) < 3
    /\ LET w == SearchWeights(partialWeight)[Len(calls) + 1]
       IN /\ calls' = Append(calls, w)
          /\ \E healthy \in BOOLEAN :
                IF ~healthy \/ txn = "aborted"
                THEN /\ outcome' = "db_error"
                     /\ txn' = "aborted"
                     /\ anyFailure' = TRUE
                     /\ log' = Append(log, "fail")
                     /\ pc' = "raise"
                     /\ UNCHANGED results
                ELSE \E rows \in SearchRows(FirstPass(cands), w) :
                     /\ txn' = "active"
                     /\ UNCHANGED anyFailure
                     /\ IF ConversionRaises(rows)
                        THEN /\ outcome' = "type_error"
                             /\ log' = Append(log, "fail")
                             /\ pc' = "raise"
                             /\ UNCHANGED results
                        ELSE /\ outcome' = "returned"
                             /\ log' = Append(log, "ok")
                             /\ results' = Append(results, ToResults(rows))
                             /\ pc' = IF Len(calls) = 2 THEN "display" ELSE "search"
    /\ dirtyStmt' = (dirtyStmt \/ unrolled)
    /\ UNCHANGED <<script, procv, libv, exitStatus, inputs, conn, unrolled, db, tx, loopv,
                   written, expectedDb, validated, display, tables, genv>>

\* display_results: the three tables are filled row by row and printed.
DisplayResults ==
    /\ pc = "display"
    /\ LET run == RunAddRows(showScores, <<<<>>, <<>>, <<>>>>,
                             AddRowCalls(showScores), 1)
       IN /\ tables' = run.tabs
          /\ display' = IF run.raised THEN "raised" ELSE "rendered"
          /\ pc' = IF run.raised THEN "raise" ELSE "finish"
    /\ UNCHANGED <<script, procv, libv, exitStatus, inputs, dbv, loopv, hist, validated, calls,
                   results, outcome, genv>>

\* ---------------------------------------------------- generate_embedding
\* generate_embedding.main: the API key is required.
GenerateEmbeddingMain ==
    /\ pc = "start" /\ script = "generate_embedding"
    /\ IF cfgOk
       THEN pc' = "load" /\ UNCHANGED exitStatus
       ELSE pc' = "done" /\ exitStatus' = <<1>>
    /\ UNCHANGED <<script, procv, libv, inputs, dbv, loopv, hist, searchv, genv>>

\* load_movies (FileNotFoundError without movies.csv), then --limit.
LoadMovies ==
    /\ pc = "load"
    /\ IF filesExist
       THEN /\ movies' = ApplyLimit(MoviesCsv, limit)
            /\ units' = ApplyLimit(MoviesCsv, limit)
            /\ phase' = "api"
            /\ pc' = "api"
       ELSE /\ pc' = "raise"
            /\ UNCHANGED <<movies, units, phase>>
    /\ UNCHANGED <<script, procv, libv, exitStatus, inputs, dbv, i, stmt, wrote, hist, searchv,
                   sent, output>>

\* One batch of generate_all_embeddings: the texts are posted; an error status
\* or a RequestException gives None and the loop goes on; a response that
\* cannot be decoded raises.
GenerateBatch ==
    /\ pc = "api" /\ i <= Len(units)
    /\ LET batch == Batch(units, i, batchSize)
       IN \E res \in ApiOutcomes :
            /\ sent' = sent + Len(batch)
            /\ output' = IF res = "ok" THEN output \o batch ELSE output
            /\ log' = Append(log, IF res = "ok" THEN "ok" ELSE "fail")
            /\ anyFailure' = (anyFailure \/ res # "ok")
            /\ pc' = IF res = "bad_response" THEN "raise" ELSE "api"
    /\ i' = i + batchSize
    /\ UNCHANGED <<script, procv, libv, exitStatus, inputs, dbv, phase, units, stmt, wrote,
                   written, expectedDb, searchv, movies>>

\* After the loop the embeddings are saved (when there are any).
SaveEmbeddings ==
    /\ pc = "api" /\ i > Len(units)
    /\ pc' = "finish"
    /\ UNCHANGED <<script, procv, libv, exitStatus, inputs, dbv, loopv, hist, searchv, genv>>

\* ----------------------------------------------------------------- exits
\* The script ran to its end: the connection is closed, exit status 0.
Finish ==
    /\ pc = "finish"
    /\ pc' = "done"
    /\ exitStatus' = <<0>>
    /\ conn' = IF conn = "open" THEN "closed" ELSE conn
    /\ UNCHANGED <<script, procv, libv, inputs, txn, unrolled, dirtyStmt, db, tx, loopv, hist,
                   searchv, genv>>

\* An exception reached main: it is printed, the connection is closed in the
\* finally block, and the process exits with status 1.
MainExcept ==
    /\ pc = "raise"
    /\ pc' = "done"
    /\ exitStatus' = <<1>>
    /\ conn' = IF conn = "open" THEN "closed" ELSE conn
    /\ UNCHANGED <<script, procv, libv, inputs, txn, unrolled, dirtyStmt, db, tx, loopv, hist,
                   searchv, genv>>

\* ingest_data is run a second time on the same CSV files after a first run
\* that succeeded: a new process, on the database the first run left.
RunAgain ==
    /\ pc = "done" /\ script = "ingest_data"
    /\ invocation = 1 /\ exitStatus = <<0>>
    /\ invocation' = 2
    /\ firstDb' = db
    /\ pc' = "start" /\ exitStatus' = NULL
    /\ conn' = "none" /\ connects' = 0
    /\ tx' = db /\ txn' = "idle" /\ unrolled' = FALSE /\ dirtyStmt' = FALSE
    /\ phase' = "" /\ units' = <<>> /\ i' = 1 /\ stmt' = 1 /\ wrote' = FALSE
    /\ log' = <<>> /\ written' = <<>> /\ anyFailure' = FALSE
    /\ UNCHANGED <<script, inputs, db, expectedDb, searchv, genv, libv>>

Next ==
    \/ IngestDataMain
    \/ IngestEmbeddingsMain
    \/ GenerateUserMain
    \/ SearchMain
    \/ Connect
    \/ IngestAllCheckFiles
    \/ LoadEmbeddingsCsv
    \/ BatchStatement
    \/ BatchExcept
    \/ LoopDone
    \/ VerifyStep
    \/ VerifySchema
    \/ SelectUsers
    \/ ValidateUser
    \/ UnifiedSearch
    \/ DisplayResults
    \/ GenerateEmbeddingMain
    \/ LoadMovies
    \/ GenerateBatch
    \/ SaveEmbeddings
    \/ Finish
    \/ MainExcept

Spec == Init /\ [][Next]_vars

\* The scripts, with ingest_data run twice.
NextTwice == Next \/ RunAgain

SpecTwice == Init /\ [][NextTwice]_vars

\* ------------------------------------- DatabaseConnection, db_transaction
\* The library of utils.py on its own: a caller builds a DatabaseConnection and
\* calls its methods in any order, or enters a db_transaction block, calls
\* methods inside it and leaves it normally or by an exception.

\* The methods that begin with the test of self.conn.
Guarded ==
    {"execute_batch", "execute_query", "execute_update", "execute_no_response",
     "commit", "rollback"}

\* The user row the caller's INSERT statements write.
WrittenUser == MaxUsers + 1

\* A method that goes on without testing self.conn.
NotEstablishedNever(c) == FALSE

\* `if not self.conn`: no connect() has succeeded on this object.
NotEstablished(c) == c = "none"

\* One call of method m on an object whose self.conn is c: the exception it
\* raises ("ok" for none), whether it used the connection, and the
\* transaction and database it leaves. Without the test, None has no cursor
\* (AttributeError); a closed connection refuses every operation
\* (InterfaceError); a statement fails on an unhealthy server or in an
\* aborted transaction.
MethodCall(m, c, healthy, autocommit) ==
    LET fails == ~healthy \/ txn = "aborted"
        Leaves(res, used, tn, d, t) ==
            [result |-> res, touched |-> used, txn |-> tn, db |-> d, tx |-> t]
        inserted == [tx EXCEPT !.users = @ \cup {WrittenUser}]
    IN IF NotEstablished(c) THEN Leaves("RuntimeError", FALSE, txn, db, tx)
       ELSE IF c = "none" THEN Leaves("AttributeError", FALSE, txn, db, tx)
       ELSE IF c = "closed" THEN Leaves("InterfaceError", FALSE, txn, db, tx)
       ELSE CASE m = "commit" ->
                    IF ~healthy THEN Leaves("OperationalError", TRUE, "aborted", db, tx)
                    ELSE IF txn = "aborted" THEN Leaves("ok", TRUE, "idle", db, db)
                    ELSE Leaves("ok", TRUE, "idle", tx, tx)
              [] m = "rollback" -> Leaves("ok", TRUE, "idle", db, db)
              [] m = "execute_query" ->
                    IF fails THEN Leaves("DatabaseError", TRUE, "aborted", db, tx)
                    ELSE Leaves("ok", TRUE, "active", db, tx)
              [] m = "execute_update" /\ autocommit ->
                    IF fails THEN Leaves("DatabaseError", TRUE, "idle", db, db)
                    ELSE Leaves("ok", TRUE, "idle", inserted, inserted)
              [] OTHER ->
                    IF fails THEN Leaves("DatabaseError", TRUE, "aborted", db, tx)
                    ELSE Leaves("ok", TRUE, "active", db, inserted)

\* What no step of the library changes.
scriptv ==
    <<script, exitStatus, inputs, unrolled, dirtyStmt, loopv, hist, searchv, genv,
      procv>>

\* DatabaseConnection(config): ValueError on an invalid configuration.
NewConnection ==
    /\ pc = "new"
    /\ pc' = IF cfgOk THEN "object" ELSE "invalid"
    /\ lastCall' = [method |-> "__init__", before |-> conn,
                    result |-> IF cfgOk THEN "ok" ELSE "ValueError",
                    touched |-> FALSE]
    /\ UNCHANGED <<conn, txn, db, tx, cm, scriptv>>

\* connect() on the object: self.conn is set only when psycopg2.connect
\* returns.
ObjConnect ==
    /\ pc = "object"
    /\ \E ok \in BOOLEAN :
        /\ lastCall' = [method |-> "connect", before |-> conn,
                        result |-> IF ok THEN "ok" ELSE "OperationalError",
                        touched |-> TRUE]
        /\ IF ok
           THEN conn' = "open" /\ tx' = db /\ txn' = "idle"
           ELSE UNCHANGED <<conn, tx, txn>>
    /\ UNCHANGED <<pc, db, cm, scriptv>>

\* One of the guarded methods is called, on the object or inside the block.
Call ==
    /\ pc \in {"object", "body"}
    /\ \E m \in Guarded, healthy \in BOOLEAN, autocommit \in BOOLEAN :
        LET o == MethodCall(m, conn, healthy, autocommit)
        IN /\ lastCall' = [method |-> m, before |-> conn,
                           result |-> o.result, touched |-> o.touched]
           /\ txn' = o.txn /\ db' = o.db /\ tx' = o.tx
    /\ UNCHANGED <<pc, conn, cm, scriptv>>

\* close(): closes self.conn when there is one; uncommitted work is lost.
Close ==
    /\ pc \in {"object", "body"}
    /\ lastCall' = [method |-> "close", before |-> conn, result |-> "ok",
                    touched |-> ~NotEstablished(conn)]
    /\ IF NotEstablished(conn)
       THEN UNCHANGED <<conn, txn, tx>>
       ELSE conn' = "closed" /\ txn' = "idle" /\ tx' = db
    /\ UNCHANGED <<pc, db, cm, scriptv>>

\* The exception a rollback() in the except block of db_transaction raises.
RollbackRaises(c) == MethodCall("rollback", c, TRUE, FALSE).result

\* db_transaction up to its yield: the object is built outside the try;
\* connect() runs inside it, and its failure goes through the except block
\* (rollback, raise) and the finally block (close).
TxnEnter ==
    /\ pc = "new"
    /\ \E ok \in BOOLEAN :
        IF ~cfgOk
        THEN /\ pc' = "exited"
             /\ cm' = [NoBlock EXCEPT !.at = "exited",
                                      !.original = <<"init", "ValueError">>,
                                      !.propagated = <<"init", "ValueError">>]
             /\ UNCHANGED conn
        ELSE IF ok
        THEN /\ pc' = "body"
             /\ cm' = [NoBlock EXCEPT !.at = "body"]
             /\ conn' = "open"
        ELSE LET rb == RollbackRaises(conn)
                 original == <<"connect", "OperationalError">>
             IN /\ pc' = "exited"
                /\ cm' = [NoBlock EXCEPT
                            !.at = "exited",
                            !.rollbacks = IF rb = "ok" THEN 1 ELSE 0,
                            !.original = original,
                            !.propagated = IF rb = "ok" THEN original
                                           ELSE <<"rollback", rb>>]
                /\ UNCHANGED conn
    /\ UNCHANGED <<txn, db, tx, lastCall, scriptv>>

\* db_transaction after its yield: the body ended or raised. commit() after a
\* body that ended; rollback() and a bare raise when the body or the commit
\* raised; close() in every case.
TxnExit ==
    /\ pc = "body"
    /\ \E raised \in BOOLEAN, healthy \in BOOLEAN :
        LET c == MethodCall("commit", conn, healthy, FALSE)
            original == IF raised THEN <<"body", "Exception">>
                        ELSE IF c.result # "ok" THEN <<"commit", c.result>>
                        ELSE NULL
            rb == RollbackRaises(conn)
        IN /\ cm' = [at |-> "exited",
                     body |-> IF raised THEN "raised" ELSE "completed",
                     commits |-> IF raised THEN 0 ELSE 1,
                     rollbacks |-> IF original # NULL /\ rb = "ok" THEN 1 ELSE 0,
                     original |-> original,
                     propagated |-> IF original = NULL \/ rb = "ok" THEN original
                                    ELSE <<"rollback", rb>>]
           /\ db' = IF raised THEN db ELSE c.db
           /\ tx' = IF raised THEN db ELSE c.db
    /\ txn' = "idle"
    /\ conn' = IF NotEstablished(conn) THEN conn ELSE "closed"
    /\ pc' = "exited"
    /\ UNCHANGED <<lastCall, scriptv>>

\* The state before the caller's first step.
InitLib ==
    /\ script = "library"
    /\ pc = "new"
    /\ exitStatus = NULL
    /\ cfgOk \in BOOLEAN
    /\ filesExist = TRUE /\ tagsExist = FALSE /\ batchSize = 1
    /\ schemaCols = {"embedding", "updated_at"}
    /\ userState = "ready" /\ cands = <<>> /\ partialWeight = 50
    /\ showScores = FALSE /\ limit = NULL
    /\ ratingsIn \in [1..2 -> RatingValues]
    /\ ratingsFile = RatingsCsv
    /\ conn = "none" /\ txn = "idle" /\ unrolled = FALSE /\ dirtyStmt = FALSE
    /\ db = SeedDb(ratingsIn) /\ tx = db
    /\ phase = "" /\ units = <<>> /\ i = 1 /\ stmt = 1 /\ wrote = FALSE
    /\ log = <<>> /\ written = <<>> /\ anyFailure = FALSE /\ expectedDb = db
    /\ validated = "unknown" /\ calls = <<>> /\ results = <<>>
    /\ outcome = "none" /\ display = "none" /\ tables = <<>>
    /\ movies = <<>> /\ sent = 0 /\ output = <<>>
    /\ invocation = 1 /\ firstDb = EmptyDb /\ connects = 0
    /\ lastCall = NoCall
    /\ cm = NoBlock

NextLib ==
    \/ NewConnection
    \/ ObjConnect
    \/ Call
    \/ Close
    \/ TxnEnter
    \/ TxnExit

SpecLib == InitLib /\ [][NextLib]_vars

\* ================================================================ claims
\* The scripts whose loop catches a failure and goes on.
ContinueScripts ==
    {"ingest_embeddings", "generate_user_embeddings", "generate_embedding"}

\* The number of units a loop over n rows in steps of size makes.
NumUnits(n, size) == (n + size - 1) \div size

\* A unit was started after an earlier unit had failed.
ProcessedAfterFailure == \E k \in 1..(Len(log) - 1) : log[k] = "fail"

\* C1: no run in which a database statement or an embeddings-API call failed
\* ends with exit status 0.
C1_FailureGivesNonZeroExit == exitStatus = <<0>> => ~anyFailure

\* C2: a failed statement of a batch or per-user transaction is rolled back
\* before any further statement is issued on the connection, and the committed
\* tables hold exactly what the committed units wrote, nothing of a failed one.
C2_FailedUnitRolledBack ==
    /\ ~dirtyStmt
    /\ db = expectedDb
    /\ (txn = "idle" => tx = db)
    /\ (unrolled => pc = "except")

\* C2 witness: a unit failed after it had written, and a later unit committed.
C2_Witness ==
    /\ script \in {"ingest_embeddings", "ingest_data", "generate_user_embeddings"}
    /\ \E k \in 1..(Len(written) - 1) :
        /\ log[k] = "fail" /\ written[k] /\ log[k + 1] = "ok"
        /\ db # InitialDb(script, userState, ratingsIn)

HasData(d, u) == UserWeights(d, u) # {}

\* C4: generate_user_embedding returns True exactly when the embedding was
\* computed, written and committed, and False when the user has no data; a
\* successful UPDATE is committed.
C4_TrueIffCommitted ==
    (script = "generate_user_embeddings" /\ phase = "user_embedding") =>
        \A k \in 1..Len(log) :
            /\ (log[k] = "ok") <=> (written[k] /\ HasData(db, units[k]))
            /\ (log[k] = "ok") => \E e \in db.embedding : e.user_id = units[k]

\* C5: for a validated user and a query with at least one match, a
\* unified_search whose query ran returns one result per first-pass candidate.
C5_OneResultPerCandidate ==
    (script = "search_cli" /\ validated = "valid" /\ cands # <<>>
        /\ outcome \notin {"none", "db_error"})
    => /\ outcome = "returned"
       /\ Len(results[Len(results)]) = Len(FirstPass(cands))

\* C6: display_results returns normally with and without show_scores, and
\* every row of every table has as many cells as the table has field names.
C6_DisplayRenders ==
    display # "none" =>
        /\ display = "rendered"
        /\ \A t \in 1..Len(tables) : \A r \in 1..Len(tables[t]) :
            tables[t][r] = FieldCount(showScores)

\* The weight pairs search is to pass, in hundredths.
ExpectedCalls == << <<100, 0>>, <<100 - partialWeight, partialWeight>>, <<0, 100>> >>

\* C7: after validate_user succeeded search issues the three unified_search
\* calls in the order (1, 0), (1 - p/100, p/100), (0, 1) and displays once all
\* three have returned; after validate_user failed it issues none and
\* displays nothing.
C7_ThreeSearchesInOrder ==
    /\ Len(calls) <= 3
    /\ \A k \in 1..Len(calls) : calls[k] = ExpectedCalls[k]
    /\ calls # <<>> => validated = "valid"
    /\ display # "none" => (calls = ExpectedCalls /\ Len(results) = 3)
    /\ (script = "search_cli" /\ validated = "valid" /\ exitStatus = <<0>>)
        => (calls = ExpectedCalls /\ display = "rendered")
    /\ validated = "invalid" => (calls = <<>> /\ display = "none")

\* C7 witness: the three searches were made and their results displayed.
C7_Witness ==
    /\ script = "search_cli"
    /\ validated = "valid"
    /\ Len(calls) = 3
    /\ display = "rendered"
    /\ pc = "done"

\* C8: every unified_search call gets weights in [0, 1] that sum to 1.
C8_WeightsInUnitInterval ==
    \A k \in 1..Len(calls) :
        /\ calls[k][1] \in 0..100
        /\ calls[k][2] \in 0..100
        /\ calls[k][1] + calls[k][2] = 100

AbsWeight(r) == IF Weight(r) < 0 THEN 0 - Weight(r) ELSE Weight(r)

RECURSIVE SumAbsWeights(_)
SumAbsWeights(R) ==
    IF R = {} THEN 0
    ELSE LET r == CHOOSE x \in R : TRUE
         IN AbsWeight(r.rating) + SumAbsWeights(R \ {r})

RECURSIVE SumAbsWeighted(_, _)
SumAbsWeighted(R, c) ==
    IF R = {} THEN 0
    ELSE LET r == CHOOSE x \in R : TRUE
         IN AbsWeight(r.rating) * MovieVec(r.movie_id)[c] + SumAbsWeighted(R \ {r}, c)

Likes(R) == {r \in R : r.rating >= LikeThreshold}
Dislikes(R) == {r \in R : r.rating < DislikeThreshold}

\* weighted_avg(likes) - weighted_avg(dislikes) as a fraction; the average of
\* no vectors counts as the zero vector.
DocstringEmbedding(R) ==
    LET dl == IF Likes(R) = {} THEN 1 ELSE SumAbsWeights(Likes(R))
        dd == IF Dislikes(R) = {} THEN 1 ELSE SumAbsWeights(Dislikes(R))
    IN [num |-> [c \in 1..2 |->
                    SumAbsWeighted(Likes(R), c) * dd - SumAbsWeighted(Dislikes(R), c) * dl],
        den |-> dl * dd]

SameFraction(a, b) ==
    /\ a.den # 0 /\ b.den # 0
    /\ \A c \in 1..2 : a.num[c] * b.den = b.num[c] * a.den

\* C9: the embedding the UPDATE writes for a user equals
\* weighted_avg(likes) - weighted_avg(dislikes) over that user's ratings.
C9_EmbeddingIsLikesMinusDislikes ==
    script = "generate_user_embeddings" =>
        \A e \in tx.embedding :
            SameFraction(e.value, DocstringEmbedding(UserWeights(tx, e.user_id)))

\* C10: with --limit N at most N movies (none for N <= 0) are sent to the API
\* and written to the output.
C10_AtMostLimitProcessed ==
    (script = "generate_embedding" /\ limit # NULL) =>
        /\ sent <= Max(limit[1], 0)
        /\ Len(output) <= Max(limit[1], 0)

\* The tables ingest_data fills.
IngestTables == {"movies", "users", "ratings", "tags"}

\* The keys of the rows of a table of the database d.
TableKeys(d, tb) ==
    CASE tb = "ratings" -> {RatingKey(r) : r \in d.ratings}
      [] tb = "tags" -> {TagKey(r) : r \in d.tags}
      [] OTHER -> d[tb]

\* C11: ingestion is an idempotent upsert. When ingest_data has run twice on
\* the same CSV files and both runs succeeded, the database is the one the
\* first run left: the same rows in movies, users, ratings and tags, one row
\* per unique key, each with the created_at the first run gave it.
C11_SecondRunChangesNothing ==
    (script = "ingest_data" /\ invocation = 2 /\ pc = "done" /\ exitStatus = <<0>>)
        => /\ db = firstDb
           /\ \A a, b \in db.ratings : RatingKey(a) = RatingKey(b) => a = b
           /\ \A tb \in IngestTables :
                /\ {e.key : e \in db.created_at[tb]} = TableKeys(db, tb)
                /\ \A e \in db.created_at[tb] : e.at = 1

\* The second run has ended on a ratings.csv that rates one movie twice for
\* one user, with tags ingested.
C11_Witness ==
    /\ script = "ingest_data" /\ invocation = 2
    /\ pc = "done" /\ exitStatus = <<0>>
    /\ Len(ratingsFile) = 3 /\ Cardinality(db.ratings) = 2
    /\ db.tags # {}

\* C12: one invocation of a script opens at most one database connection:
\* connect is called at most once, and a connection exists only through that
\* one call.
C12_AtMostOneConnection ==
    /\ connects <= 1
    /\ conn # "none" => connects = 1
    /\ script \notin DbScripts => connects = 0

\* A script has connected, done its work and closed its connection.
C12_Witness ==
    pc = "done" /\ conn = "closed" /\ connects = 1 /\ exitStatus = <<0>>

\* C13: configuration is validated before anything is opened. When the
\* configuration a script requires is invalid or missing, the run goes from
\* its start straight to its exit: connect is never called, no connection
\* exists, and no request is sent to the embeddings API.
C13_InvalidConfigOpensNothing ==
    ~cfgOk =>
        /\ connects = 0 /\ conn = "none"
        /\ sent = 0 /\ log = <<>> /\ output = <<>>
        /\ db = InitialDb(script, userState, ratingsIn)
        /\ pc \in {"start", "raise", "done"}
        /\ pc = "done" => exitStatus = <<1>>

\* A run on an invalid configuration has ended.
C13_Witness ==
    ~cfgOk /\ pc = "done" /\ exitStatus = <<1>> /\ filesExist

\* C14: db_transaction commits exactly once when its body completes without
\* an exception and never commits otherwise; when connect, the body or the
\* commit raises it rolls back and the exception that leaves the block is that
\* same original exception; and no connection is left open on exit.
C14_CommitOrRollbackAndReraise ==
    (cm.at = "exited" /\ cm.original # <<"init", "ValueError">>) =>
        /\ cm.commits = IF cm.body = "completed" THEN 1 ELSE 0
        /\ cm.original # NULL => cm.rollbacks = 1 /\ cm.propagated = cm.original
        /\ cm.original = NULL => cm.rollbacks = 0 /\ cm.propagated = NULL
        /\ conn # "open"

\* C15: on a DatabaseConnection on which connect() has not succeeded, a call
\* of execute_batch, execute_query, execute_update, execute_no_response,
\* commit or rollback raises RuntimeError without using a connection, and
\* close() returns without doing anything.
C15_GuardedWithoutConnection ==
    (lastCall.before = "none" /\ lastCall.method \in Guarded \cup {"close"}) =>
        /\ ~lastCall.touched
        /\ lastCall.result = IF lastCall.method = "close" THEN "ok" ELSE "RuntimeError"
        /\ conn = "none" /\ txn = "idle"
        /\ db = SeedDb(ratingsIn) /\ tx = db

\* A guarded method was called after a connect() that failed.
C15_Witness ==
    /\ pc = "object" /\ conn = "none"
    /\ lastCall.method = "execute_update" /\ lastCall.result = "RuntimeError"

\* C16: the order of ingest_all guarantees the foreign key of ratings. While
\* ingest_data is in its ratings phase, every row of ratings.csv names a user
\* whose users row is already committed, and every rating row inserted so
\* far, committed or not, belongs to a committed user: for every ratings.csv
\* and every batch size.
C16_UsersCommittedBeforeRatings ==
    script = "ingest_data" =>
        /\ \A r \in tx.ratings : r.user_id \in db.users
        /\ (phase = "ratings" /\ pc \in {"batch", "except"}) =>
                \A k \in 1..Len(units) : units[k].user_id \in db.users

\* A batch of ratings of two users has just been inserted and is not yet
\* committed.
C16_Witness ==
    /\ script = "ingest_data" /\ invocation = 1
    /\ phase = "ratings" /\ pc = "batch" /\ txn = "active" /\ stmt = 2
    /\ Cardinality(tx.ratings) = 2 /\ db.ratings = {}
    /\ Cardinality(db.users) = 2
====
